---- MODULE Spec2Model ----
(***************************************************************************)
(* Model of middleware.py: the AngelOneTrader object (session state, login *)
(* and place_order) and the Flask handlers that drive it (/webhook, /test, *)
(* /login and the login made at startup).                                  *)
(*                                                                         *)
(* The Flask development server handles every request on its own thread,   *)
(* so the handlers run concurrently on the one module-level trader.  Each  *)
(* handler is cut into steps at the points where it reads or writes the    *)
(* shared trader attributes; code between two such points only touches     *)
(* locals and belongs to the step that follows it.                         *)
(*                                                                         *)
(* Optional values (Python None / a missing JSON key) are sequences of     *)
(* length 0 or 1: None is <<>>, a present value x is <<x>>.                *)
(***************************************************************************)
EXTENDS Integers, Sequences, FiniteSets, TLC

\* Number of HTTP requests the model lets the server accept.
MaxRequests == 2

None == <<>>
Some(x) == <<x>>

\* Python truthiness of an optional number / an optional string.
TruthyNum(v) == v # None /\ v[1] # 0
TruthyStr(v) == v # None /\ v[1] # ""

\* The main thread and the request threads of the server.
Main == "main"
Threads == {"t1", "t2"}
\* The threads in the order the server hands requests to them.
ThreadOrder == <<"t1", "t2">>
Procs == Threads \cup {Main}

(***************************************************************************)
(* Pure helpers                                                            *)
(***************************************************************************)

\* str.upper() on the strings the model's requests contain.
Upper(s) ==
    CASE s = "reliance" -> "RELIANCE"
      [] s = "buy"      -> "BUY"
      [] s = "sell"     -> "SELL"
      [] s = "hold"     -> "HOLD"
      [] OTHER          -> s

symbol_map ==
    [ NIFTY |-> "99926000", BANKNIFTY |-> "99926009", RELIANCE |-> "2885",
      TCS |-> "11536", INFY |-> "1594", HDFCBANK |-> "1333",
      ICICIBANK |-> "4963", SBIN |-> "3045", ITC |-> "424",
      HINDUNILVR |-> "356" ]

\* symbol_map.get(symbol.upper())
get_symbol_token(symbol) ==
    IF Upper(symbol) \in DOMAIN symbol_map
    THEN Some(symbol_map[Upper(symbol)])
    ELSE None

signal_quantities ==
    [ G_BOX |-> 1, R_BOX |-> 1, 2G_BOX |-> 2, 2R_BOX |-> 2,
      1G_BOX |-> 1, 1R_BOX |-> 1, 2GR_BOX |-> 1, 2RG_BOX |-> 1 ]

\* signal_quantities.get(signal, 1); signal is an optional string.
get_quantity_for_signal(signal) ==
    IF signal # None /\ signal[1] \in DOMAIN signal_quantities
    THEN signal_quantities[signal[1]]
    ELSE 1

Digit == <<"0", "1", "2", "3", "4", "5", "6", "7", "8", "9">>

\* str(n) for a natural number: its decimal digits, most significant first.
RECURSIVE Str(_)
Str(n) ==
    IF n < 10 THEN <<Digit[n + 1]>>
    ELSE Str(n \div 10) \o <<Digit[(n % 10) + 1]>>

\* AngelOneTrader.__init__: the trading parameters.
default_quantity == 1
product_type == "MIS"


(***************************************************************************)
(* Requests and brokerage responses                                        *)
(***************************************************************************)

\* A request body as request.get_json() returns it.  kind "null": no JSON
\* body (get_json gives None); "array": a non-empty JSON value that is not an
\* object; "object": a JSON object with the optional keys below (an object
\* with no key at all is {}).
Body(kind, action, symbol, signal, price, quantity) ==
    [ kind |-> kind, action |-> action, symbol |-> symbol, signal |-> signal,
      price |-> price, quantity |-> quantity ]

NoBody == Body("null", None, None, None, None, None)

\* Bodies POSTed to /webhook: the rejected ones (no body, a JSON array, {},
\* an action that is missing, unknown or lower-case) and orders that differ
\* in symbol, signal and price.
WebhookBodies ==
    { NoBody,
      Body("array", None, None, None, None, None),
      Body("object", None, None, None, None, None),
      Body("object", Some("HOLD"), None, None, None, None),
      Body("object", None, Some("reliance"), None, Some(250), None),
      Body("object", Some("buy"), None, None, None, None),
      Body("object", Some("BUY"), None, None, None, None),
      Body("object", Some("BUY"), Some("reliance"), Some("2G_BOX"), Some(250), None),
      Body("object", Some("SELL"), Some("UNKNOWNSYM"), None, None, None),
      Body("object", Some("SELL"), None, Some("R_BOX"), Some(0), None) }

\* Bodies POSTed to /test.
TestBodies ==
    { NoBody,
      Body("array", None, None, None, None, None),
      Body("object", Some("HOLD"), Some("RELIANCE"), None, None, Some(3)),
      Body("object", Some("sell"), Some("UNKNOWNSYM"), None, None, Some(0)) }

\* The part of a body the handler has looked at before place_order reaches
\* line 93: webhook tests the body and its action (lines 164, 177) and only
\* copies symbol, signal and price (lines 171-174); test_order only copies.
\* The model keeps this part in the thread's frame and draws the rest of the
\* body in the step that first uses it (PlaceOrderSubmit).
Seen(op, body) ==
    IF op = "webhook"
    THEN Body(body.kind, body.action, None, None, None, None)
    ELSE Body(body.kind, None, None, None, None, None)

\* What smart_api.generateSession does: "true" returns a response whose
\* status is true, "false" one whose status is false, "raise" raises
\* (transport error).  Whether a status-true response holds each of the
\* three tokens is drawn where login reads the token (lines 47-49).
LoginResponses == {"true", "false", "raise"}

\* What smart_api.placeOrder does: "ok" returns status true with
\* data.orderid; "rejected" returns status false; "raise" raises; "noid"
\* returns status true without data.orderid; "nullid" returns status true
\* with data.orderid null.
OrderResponses == {"ok", "rejected", "raise", "noid", "nullid"}

\* The order id the brokerage puts in a response that has one.
OrderId == "ORD-1"

\* The brokerage accepted the order: its response reports status true.
BrokerAccepted(resp) == resp \in {"ok", "noid", "nullid"}

(***************************************************************************)
(* State                                                                   *)
(***************************************************************************)

VARIABLES
    smart_api,      \* trader.smart_api: None or Some(client id)
    auth_token,     \* trader.auth_token: None or Some(Session) of the response it came from
    refresh_token,  \* trader.refresh_token
    feed_token,     \* trader.feed_token
    order_type,     \* trader.order_type
    clients,        \* number of SmartConnect objects constructed so far
    frame,          \* per thread: where it is in its handler, and its locals
    started,        \* number of requests accepted so far
    returned        \* the call that returned in the step leading to this state (a set of 0 or 1 records)

vars == <<smart_api, auth_token, refresh_token, feed_token, order_type,
          clients, frame, started, returned>>

session == <<auth_token, refresh_token, feed_token>>

\* What identifies the tokens of one generateSession response: the login()
\* call that received it (numbered by the client that call constructed on
\* line 38) and the client generateSession was called on.
Session(call, client) == [ call |-> call, client |-> client ]

\* The locals of a thread that is not inside a handler.
IdleFrame ==
    [ pc |-> "idle", op |-> "none", req |-> NoBody, tokenSeen |-> "unchecked",
      gen |-> 0, sid |-> None, loggedIn |-> "none" ]

\* trader = AngelOneTrader(): lines 25-33.
TraderInit ==
    /\ smart_api = None
    /\ auth_token = None
    /\ refresh_token = None
    /\ feed_token = None
    /\ clients = 0
    /\ frame = [p \in Procs |-> IF p = Main THEN [IdleFrame EXCEPT !.pc = "init"]
                                 ELSE IdleFrame]
    /\ started = 0
    /\ returned = {}

Init ==
    /\ TraderInit
    /\ order_type = "MARKET"

\* The same program with trader.order_type configured as either order type.
InitConfigured ==
    /\ TraderInit
    /\ order_type \in {"MARKET", "LIMIT"}


(***************************************************************************)
(* Return values and responses                                             *)
(***************************************************************************)

\* The dict place_order returns.  order_id is None when the dict has no
\* "order_id" key, Some("") when the key holds null, and Some(id) when it
\* holds the brokerage's order id.
Outcome(status, message, order_id) ==
    [ status |-> status, message |-> message, order_id |-> order_id ]

\* An HTTP response: its status code and the JSON fields that matter here.
\* status is "success" / "error" (or the JSON booleans "true" / "false" that
\* /test returns); order_id is as in Outcome.
Response(code, status, message, order_id) ==
    [ code |-> code, status |-> status, message |-> message, order_id |-> order_id ]

\* webhook, lines 190-203: the response built from place_order's result.
WebhookResponse(result) ==
    Response(IF result.status THEN 200 ELSE 400,
             IF result.status THEN "success" ELSE "error",
             result.message,
             IF TruthyStr(result.order_id) THEN result.order_id ELSE None)

\* test_order, line 256: jsonify(result).
TestResponse(result) ==
    Response(200, IF result.status THEN "true" ELSE "false",
             result.message, result.order_id)

\* manual_login, lines 240-244.
ManualLoginResponse(success) ==
    Response(200, IF success THEN "success" ELSE "error",
             IF success THEN <<"Login successful">> ELSE <<"Login failed">>, None)

\* The classes of the exceptions the model raises; all derive from Exception.
Exceptions == {"ConnectionError", "KeyError", "AttributeError", "ValueError"}

LoginCatchesKeyErrorOnly(e) == e = "KeyError"

\* login, line 56: "except Exception as e".
LoginCatches(e) == e \in Exceptions

\* place_order, line 136: "except Exception as e".
PlaceOrderCatches(e) == e \in Exceptions

\* The record of a call that returns: what the thread was asked, what it did
\* on the way and what it gives back.
\*   tokenSeen  what the trader held when the call passed line 88: "present"
\*              (a client and an auth_token) or "absent"; "unchecked" if the
\*              call never got there
\*   gen        generateSession calls made by this call
\*   loggedIn   what login() returned to this call ("none": not called)
\*   resolved   get_symbol_token was called
\*   place      placeOrder calls made by this call
\*   payload    the order_params passed to placeOrder
\*   client     the client placeOrder was called on
\*   response   what placeOrder did
\*   raised     the exception raised inside login / place_order
\*   escaped    the function the exception propagated out of ("none" if caught)
\*   result     what place_order returned
\*   http       the HTTP response of the handler
CallRecord(t, f) ==
    [ op |-> f.op, req |-> f.req, tokenSeen |-> f.tokenSeen,
      gen |-> f.gen, loggedIn |-> f.loggedIn,
      resolved |-> FALSE, place |-> 0, payload |-> None, client |-> None,
      response |-> "none", raised |-> None, escaped |-> "none",
      result |-> None, http |-> None ]

\* The handler's response to place_order's result (webhook 190-203, test 256).
HandlerResponse(op, result) ==
    IF op = "webhook" THEN WebhookResponse(result) ELSE TestResponse(result)

\* The handler's response when an exception e reaches it (webhook 205-207,
\* test 258-259; manual_login has no handler, Flask answers 500).
HandlerError(op, e) ==
    CASE op = "webhook" -> Response(500, "error", <<e>>, None)
      [] op = "test"    -> Response(200, "false", <<e>>, None)
      [] OTHER          -> Response(500, "error", <<"Internal Server Error">>, None)

\* The frame of a thread whose handler has returned.
Rest(t) == IF t = Main THEN [IdleFrame EXCEPT !.pc = "serving"] ELSE IdleFrame

ProceedsAlways(ok) == TRUE

\* place_order, lines 89-90: "if not self.login(): return ... Login failed".
ProceedsAfterLogin(ok) == ok


(***************************************************************************)
(* AngelOneTrader.login, lines 35-58                                       *)
(***************************************************************************)

\* login() returns ok to the code that called it (exc: the exception raised
\* inside login, if any).  The caller's code up to its next access to the
\* trader runs in the same step: the startup code and manual_login finish;
\* place_order goes on to line 93 or returns "Login failed".
LoginReturns(t, f, ok, exc) ==
    LET out == exc # None /\ ~LoginCatches(exc[1])
        g == [f EXCEPT !.loggedIn = IF out THEN "none" ELSE IF ok THEN "true" ELSE "false"]
        rec == [CallRecord(t, g) EXCEPT !.raised = exc,
                                        !.escaped = IF out THEN "login" ELSE "none"]
        failed == Outcome(FALSE, <<"Login failed">>, None)
    IN
    IF f.op \in {"startup", "login"} THEN
        /\ frame' = [frame EXCEPT ![t] = Rest(t)]
        /\ returned' =
             {[rec EXCEPT !.http =
                 IF f.op = "startup" THEN None
                 ELSE IF out THEN Some(HandlerError(f.op, exc[1]))
                 ELSE Some(ManualLoginResponse(ok))]}
    ELSE IF out THEN
        \* the exception reaches the try block of place_order
        LET caught == PlaceOrderCatches(exc[1])
            result == Outcome(FALSE, <<"Error: ", exc[1]>>, None)
        IN
        /\ frame' = [frame EXCEPT ![t] = Rest(t)]
        /\ returned' =
             {[rec EXCEPT !.escaped = IF caught THEN "login" ELSE "place_order",
                          !.result = IF caught THEN Some(result) ELSE None,
                          !.http = Some(IF caught THEN HandlerResponse(f.op, result)
                                        ELSE HandlerError(f.op, exc[1]))]}
    ELSE IF ProceedsAfterLogin(ok) THEN
        /\ frame' = [frame EXCEPT ![t] = [g EXCEPT !.pc = "L93"]]
        /\ returned' = {}
    ELSE
        /\ frame' = [frame EXCEPT ![t] = Rest(t)]
        /\ returned' = {[rec EXCEPT !.result = Some(failed),
                                    !.http = Some(HandlerResponse(f.op, failed))]}

\* line 38: self.smart_api = SmartConnect(api_key=self.api_key)
LoginNewClient(t) ==
    /\ frame[t].pc = "L38"
    /\ clients' = clients + 1
    /\ smart_api' = Some(clients + 1)
    /\ frame' = [frame EXCEPT ![t] =
                    [@ EXCEPT !.pc = "L44", !.sid = Some(Session(clients + 1, clients + 1))]]
    /\ returned' = {}
    /\ UNCHANGED <<session, order_type, started>>

\* lines 41-46 and 52-58: the TOTP, which pyotp refuses to compute from a
\* key that is not base32 (ValueError); then
\* data = self.smart_api.generateSession(...), on the client self.smart_api
\* holds at that moment, and the test of data['status'].
LoginGenerateSession(t) ==
    /\ frame[t].pc = "L44"
    /\ \/ LoginReturns(t, frame[t], FALSE, Some("ValueError"))
       \/ \E data \in LoginResponses :
            IF data = "true"
            THEN /\ frame' = [frame EXCEPT ![t] =
                                [@ EXCEPT !.pc = "L47", !.gen = @ + 1,
                                          !.sid = Some(Session(@[1].call, smart_api[1]))]]
                 /\ returned' = {}
            ELSE LoginReturns(t, [frame[t] EXCEPT !.gen = @ + 1], FALSE,
                              IF data = "raise" THEN Some("ConnectionError") ELSE None)
    /\ UNCHANGED <<smart_api, session, order_type, clients, started>>

\* line 47: self.auth_token = data['data']['jwtToken']; a response without
\* the key raises KeyError.
LoginStoreAuth(t) ==
    /\ frame[t].pc = "L47"
    /\ \E present \in BOOLEAN :
         IF present
         THEN /\ auth_token' = frame[t].sid
              /\ frame' = [frame EXCEPT ![t].pc = "L48"]
              /\ returned' = {}
         ELSE /\ LoginReturns(t, frame[t], FALSE, Some("KeyError"))
              /\ UNCHANGED auth_token
    /\ UNCHANGED <<smart_api, refresh_token, feed_token, order_type, clients, started>>

\* line 48: self.refresh_token = data['data']['refreshToken']
LoginStoreRefresh(t) ==
    /\ frame[t].pc = "L48"
    /\ \E present \in BOOLEAN :
         IF present
         THEN /\ refresh_token' = frame[t].sid
              /\ frame' = [frame EXCEPT ![t].pc = "L49"]
              /\ returned' = {}
         ELSE /\ LoginReturns(t, frame[t], FALSE, Some("KeyError"))
              /\ UNCHANGED refresh_token
    /\ UNCHANGED <<smart_api, auth_token, feed_token, order_type, clients, started>>

\* lines 49-51: self.feed_token = data['data']['feedToken']; return True
LoginStoreFeed(t) ==
    /\ frame[t].pc = "L49"
    /\ \E present \in BOOLEAN :
         IF present
         THEN /\ feed_token' = frame[t].sid
              /\ LoginReturns(t, frame[t], TRUE, None)
         ELSE /\ LoginReturns(t, frame[t], FALSE, Some("KeyError"))
              /\ UNCHANGED feed_token
    /\ UNCHANGED <<smart_api, auth_token, refresh_token, order_type, clients, started>>

(***************************************************************************)
(* AngelOneTrader.place_order, lines 85-138                                *)
(***************************************************************************)

SessionPresumedValidClientOnly == smart_api # None

SessionPresumedValidAllTokens ==
    smart_api # None /\ auth_token # None /\ refresh_token # None /\ feed_token # None

\* line 88, negated: "not self.smart_api or not self.auth_token" is false.
SessionPresumedValid == smart_api # None /\ auth_token # None

\* lines 88-89: the session check; without a session, login() is entered.
PlaceOrderCheck(t) ==
    /\ frame[t].pc = "L88"
    /\ frame' = [frame EXCEPT ![t] =
                    [@ EXCEPT !.pc = IF SessionPresumedValid THEN "L93" ELSE "L38",
                              !.tokenSeen = IF smart_api # None /\ auth_token # None
                                            THEN "present" ELSE "absent"]]
    /\ returned' = {}
    /\ UNCHANGED <<smart_api, session, order_type, clients, started>>

\* line 102
transaction_type(action) == IF Upper(action) = "BUY" THEN "BUY" ELSE "SELL"

OrderParamsPriceWhenSupplied(symbol, symbol_token, action, quantity, price, otype) ==
    [ variety |-> "NORMAL", tradingsymbol |-> symbol, symboltoken |-> symbol_token,
      transactiontype |-> transaction_type(action), exchange |-> "NSE",
      ordertype |-> otype, producttype |-> product_type, duration |-> "DAY",
      quantity |-> Str(quantity),
      price |-> IF TruthyNum(price) THEN Some(Str(price[1])) ELSE None ]

\* lines 104-119: order_params; its price is None when the dict has no
\* "price" key.
OrderParams(symbol, symbol_token, action, quantity, price, otype) ==
    [ variety |-> "NORMAL", tradingsymbol |-> symbol, symboltoken |-> symbol_token,
      transactiontype |-> transaction_type(action), exchange |-> "NSE",
      ordertype |-> otype, producttype |-> product_type, duration |-> "DAY",
      quantity |-> Str(quantity),
      price |-> IF otype = "LIMIT" /\ TruthyNum(price) THEN Some(Str(price[1])) ELSE None ]

\* lines 92-138 for the arguments (symbol, action, quantity, price), with
\* placeOrder called on client api, answering resp, and oid the order id the
\* brokerage gives when it gives one.  The fields are those of CallRecord.
PlaceOrderBody(symbol, action, quantity, price, otype, api, resp, oid) ==
    LET symbol_token == get_symbol_token(symbol)
        qty == IF TruthyNum(quantity) THEN quantity[1] ELSE default_quantity
        order_params == OrderParams(symbol, symbol_token[1], action, qty, price, otype)
        exc == CASE resp = "raise" -> Some("ConnectionError")
                 [] resp = "noid"  -> Some("KeyError")
                 [] OTHER          -> None
        text == <<transaction_type(action), Str(qty), symbol>>
        result ==
            CASE exc # None ->
                   Outcome(FALSE, <<"Error: ", exc[1]>>, None)
              [] resp = "ok" ->
                   Outcome(TRUE, <<"Order placed: ">> \o text, Some(oid))
              [] resp = "nullid" ->
                   Outcome(TRUE, <<"Order placed: ">> \o text, Some(""))
              [] OTHER ->
                   Outcome(FALSE, <<"Order failed: ", resp>>, None)
        caught == exc = None \/ PlaceOrderCatches(exc[1])
    IN
    IF symbol_token = None
    THEN [ resolved |-> TRUE, place |-> 0, payload |-> None, client |-> None,
           response |-> "none", raised |-> None, escaped |-> "none",
           result |-> Some(Outcome(FALSE, <<"Symbol token not found for ", symbol>>, None)) ]
    ELSE [ resolved |-> TRUE, place |-> 1, payload |-> Some(order_params),
           client |-> api, response |-> resp, raised |-> exc,
           escaped |-> IF caught THEN "none" ELSE "place_order",
           result |-> IF caught THEN Some(result) ELSE None ]

\* The arguments the handler passes to place_order: webhook lines 170-187,
\* test_order lines 251-255.
Args(f) ==
    IF f.op = "webhook"
    THEN [ symbol |-> IF f.req.symbol = None THEN "NIFTY" ELSE f.req.symbol[1],
           action |-> f.req.action[1],
           quantity |-> Some(get_quantity_for_signal(f.req.signal)),
           price |-> f.req.price ]
    ELSE [ symbol |-> IF f.req.symbol = None THEN "NIFTY" ELSE f.req.symbol[1],
           action |-> IF f.req.action = None THEN "BUY" ELSE f.req.action[1],
           quantity |-> IF f.req.quantity = None THEN Some(1) ELSE f.req.quantity,
           price |-> None ]

\* The bodies a handler receives.
Bodies(op) == IF op = "webhook" THEN WebhookBodies ELSE TestBodies

\* place_order(a.symbol, a.action, a.quantity, a.price) from line 92 on.
PlaceOrder(a, otype, api, resp, oid) ==
    PlaceOrderBody(a.symbol, a.action, a.quantity, a.price, otype, api, resp, oid)

\* The record of a call whose place_order ran lines 92-138 with outcome b,
\* and the handler's response to it.
Submitted(t, f, b) ==
    [CallRecord(t, f) EXCEPT
        !.resolved = b.resolved, !.place = b.place,
        !.payload = b.payload, !.client = b.client,
        !.response = b.response, !.raised = b.raised,
        !.escaped = b.escaped, !.result = b.result,
        !.http = Some(IF b.result # None
                      THEN HandlerResponse(f.op, b.result[1])
                      ELSE HandlerError(f.op, b.raised[1]))]

\* lines 92-138, then the handler's response: symbol lookup, order_params,
\* self.smart_api.placeOrder(order_params) on the client self.smart_api holds
\* at that moment, and the result.
PlaceOrderSubmit(t) ==
    /\ frame[t].pc = "L93"
    /\ \E resp \in OrderResponses, body \in Bodies(frame[t].op) :
         /\ Seen(frame[t].op, body) = frame[t].req
         /\ returned' =
              {Submitted(t, [frame[t] EXCEPT !.req = body],
                         PlaceOrder(Args([frame[t] EXCEPT !.req = body]),
                                    order_type, smart_api, resp, OrderId))}
    /\ frame' = [frame EXCEPT ![t] = Rest(t)]
    /\ UNCHANGED <<smart_api, session, order_type, clients, started>>

(***************************************************************************)
(* The handlers and the startup code                                       *)
(***************************************************************************)

\* __main__, lines 266-269: trader.login() before app.run.
StartupLogin ==
    /\ frame[Main].pc = "init"
    /\ frame' = [frame EXCEPT ![Main] = [IdleFrame EXCEPT !.pc = "L38", !.op = "startup"]]
    /\ returned' = {}
    /\ UNCHANGED <<smart_api, session, order_type, clients, started>>

\* line 266 false: the module is imported by a WSGI server, which serves the
\* app without the startup login.
Imported ==
    /\ frame[Main].pc = "init"
    /\ frame' = [frame EXCEPT ![Main].pc = "serving"]
    /\ returned' = {}
    /\ UNCHANGED <<smart_api, session, order_type, clients, started>>

\* Thread t may take a new request: the server is up (app.run, line 273)
\* and t is free.  A request gets a thread of its own, and which one is of no
\* consequence: the model gives it the first free one.
Accepting(t) ==
    /\ frame[Main].pc = "serving"
    /\ frame[t].pc = "idle"
    /\ \A i, j \in DOMAIN ThreadOrder :
          (ThreadOrder[j] = t /\ i < j) => frame[ThreadOrder[i]].pc # "idle"
    /\ started < MaxRequests

\* "not data" on line 164: no body, or an empty object.
Falsy(body) ==
    \/ body.kind = "null"
    \/ /\ body.kind = "object"
       /\ body.action = None /\ body.symbol = None /\ body.signal = None
       /\ body.price = None /\ body.quantity = None

ValidActionAnyText(action) == TruthyStr(action)

\* line 177, negated: action is present and is one of 'BUY', 'SELL'.
ValidAction(action) == TruthyStr(action) /\ action[1] \in {"BUY", "SELL"}

\* webhook, lines 158-187 and 205-207, up to the call of place_order.
Webhook(t) ==
    /\ Accepting(t)
    /\ started' = started + 1
    /\ \E body \in WebhookBodies :
         LET f == [IdleFrame EXCEPT !.op = "webhook", !.req = body]
             reject(resp) == /\ returned' = {[CallRecord(t, f) EXCEPT !.http = Some(resp)]}
                             /\ UNCHANGED frame
         IN
         CASE Falsy(body) ->
                reject(Response(400, "error", <<"No data received">>, None))
           [] body.kind = "array" ->
                reject(HandlerError("webhook", "AttributeError"))
           [] ~ValidAction(body.action) ->
                reject(Response(400, "error", <<"Invalid action">>, None))
           [] OTHER ->
                /\ frame' = [frame EXCEPT ![t] =
                                [f EXCEPT !.pc = "L88", !.req = Seen("webhook", body)]]
                /\ returned' = {}
    /\ UNCHANGED <<smart_api, session, order_type, clients>>

\* test_order, lines 247-259, up to the call of place_order.
Test(t) ==
    /\ Accepting(t)
    /\ started' = started + 1
    /\ \E body \in TestBodies :
         LET f == [IdleFrame EXCEPT !.op = "test", !.req = body] IN
         IF body.kind = "array"
         THEN /\ returned' = {[CallRecord(t, f) EXCEPT
                                 !.http = Some(HandlerError("test", "AttributeError"))]}
              /\ UNCHANGED frame
         ELSE /\ frame' = [frame EXCEPT ![t] =
                              [f EXCEPT !.pc = "L88", !.req = Seen("test", body)]]
              /\ returned' = {}
    /\ UNCHANGED <<smart_api, session, order_type, clients>>

\* manual_login, lines 237-239: trader.login(), whatever the session is.
ManualLogin(t) ==
    /\ Accepting(t)
    /\ started' = started + 1
    /\ frame' = [frame EXCEPT ![t] = [IdleFrame EXCEPT !.pc = "L38", !.op = "login"]]
    /\ returned' = {}
    /\ UNCHANGED <<smart_api, session, order_type, clients>>

Next ==
    \/ StartupLogin
    \/ Imported
    \/ \E t \in Threads : Webhook(t)
    \/ \E t \in Threads : Test(t)
    \/ \E t \in Threads : ManualLogin(t)
    \/ \E t \in Threads : PlaceOrderCheck(t)
    \/ \E t \in Procs : LoginNewClient(t)
    \/ \E t \in Procs : LoginGenerateSession(t)
    \/ \E t \in Procs : LoginStoreAuth(t)
    \/ \E t \in Procs : LoginStoreRefresh(t)
    \/ \E t \in Procs : LoginStoreFeed(t)
    \/ \E t \in Threads : PlaceOrderSubmit(t)

Spec == Init /\ [][Next]_vars

\* The program with either order type configured.
SpecConfigured == InitConfigured /\ [][Next]_vars


(***************************************************************************)
(* Properties                                                              *)
(***************************************************************************)

\* The call r went through place_order (it reached the check on line 88).
PlaceOrderCalled(r) == r.op \in {"webhook", "test"} /\ r.tokenSeen # "unchecked"

\* The three tokens are all present.
SessionExists == auth_token # None /\ refresh_token # None /\ feed_token # None

\* Some login() is between two of its three token stores.
LoginStoring == \E p \in Procs : frame[p].pc \in {"L48", "L49"}

\* Some login() has replaced the client and has not returned yet.
LoginRunning == \E p \in Procs : frame[p].pc \in {"L44", "L47", "L48", "L49"}

\* The number a string of decimal digits denotes.
RECURSIVE Decimal(_)
Decimal(s) ==
    IF s = <<>> THEN 0
    ELSE 10 * Decimal(SubSeq(s, 1, Len(s) - 1))
         + (CHOOSE d \in 0..9 : Digit[d + 1] = s[Len(s)])

\* C1: a place_order call whose login() returned false, or whose symbol has
\* no token, returns a failure without having called placeOrder; when the
\* login failed the message is "Login failed" and get_symbol_token was not
\* called.
C1_NoOrderWithoutSessionOrToken ==
    \A r \in returned :
        (/\ PlaceOrderCalled(r)
         /\ \/ r.loggedIn = "false"
            \/ get_symbol_token(Args(r).symbol) = None)
        => /\ r.place = 0
           /\ r.result # None
           /\ r.result[1].status = FALSE
           /\ r.loggedIn = "false" =>
                /\ r.result[1].message = <<"Login failed">>
                /\ ~r.resolved

\* C1 witness: an order for a known symbol returns "Login failed" after its
\* login() failed, with no placeOrder call.
C1_Witness ==
    \E r \in returned :
        /\ PlaceOrderCalled(r)
        /\ r.loggedIn = "false"
        /\ get_symbol_token(Args(r).symbol) # None
        /\ r.place = 0
        /\ r.result = Some(Outcome(FALSE, <<"Login failed">>, None))

\* C2 as stated: once the three tokens are present, no step calls
\* generateSession.
C2_NoLoginOnceSession ==
    [][SessionExists =>
         \A p \in Procs : ~(frame[p].pc = "L44" /\ frame'[p].pc # "L44")]_vars

\* C2 amended: a place_order call that finds a client and an auth_token on
\* line 88 never enters login(): it makes no generateSession call and goes on
\* to the symbol lookup.
C2_NoLoginWhenTokenSeen ==
    /\ \A p \in Threads :
         (frame[p].op \in {"webhook", "test"} /\ frame[p].tokenSeen = "present")
         => /\ frame[p].pc = "L93"
            /\ frame[p].gen = 0
            /\ frame[p].loggedIn = "none"
    /\ \A r \in returned :
         (PlaceOrderCalled(r) /\ r.tokenSeen = "present")
         => r.gen = 0 /\ r.loggedIn = "none" /\ r.resolved

\* C2 witness: an order submitted by a call that found the session in place
\* and made no generateSession call.
C2_Witness ==
    \E r \in returned :
        /\ PlaceOrderCalled(r)
        /\ r.tokenSeen = "present"
        /\ r.gen = 0
        /\ r.place = 1

\* C3: after a login() that returned false, the three tokens are absent.
C3_FailedLoginLeavesNoSession ==
    \A r \in returned :
        r.loggedIn = "false"
        => auth_token = None /\ refresh_token = None /\ feed_token = None

\* C4: while no login() is between its token stores, the three tokens are
\* all absent or all those of one generateSession response.
C4_SessionNeverPartial ==
    ~LoginStoring
    => \/ auth_token = None /\ refresh_token = None /\ feed_token = None
       \/ auth_token # None /\ refresh_token = auth_token /\ feed_token = auth_token

\* C5: a place_order call that found no session on line 88 enters login()
\* itself, whatever the other threads do meanwhile, and calls generateSession
\* there unless its TOTP could not be computed; it never goes on to line 93
\* on the strength of another thread's login.
C5_EveryCallWithoutSessionLogsIn ==
    /\ \A p \in Threads :
         (frame[p].op \in {"webhook", "test"} /\ frame[p].tokenSeen = "absent")
         => \/ frame[p].pc \in {"L38", "L44"} /\ frame[p].gen = 0
            \/ frame[p].pc \in {"L47", "L48", "L49"} /\ frame[p].gen = 1
            \/ frame[p].pc = "L93" /\ frame[p].gen = 1 /\ frame[p].loggedIn = "true"
    /\ \A r \in returned :
         (PlaceOrderCalled(r) /\ r.tokenSeen = "absent")
         => /\ r.loggedIn \in {"true", "false"}
            /\ r.gen = 1 \/ r.raised = Some("ValueError")

\* C5 witness: two place_order calls in flight, both having found no session
\* and both having called generateSession.
C5_Witness ==
    \A p \in Threads :
        /\ frame[p].op \in {"webhook", "test"}
        /\ frame[p].tokenSeen = "absent"
        /\ frame[p].gen = 1
        /\ frame[p].pc = "L47"

C7_SuccessIffBrokerAccepted ==
    \A r \in returned :
        r.place = 1
        => /\ r.result # None
           /\ r.result[1].status <=> BrokerAccepted(r.response)
           /\ r.result[1].status => TruthyStr(r.result[1].order_id)
           /\ r.http[1].status \in {"success", "true"} => TruthyStr(r.http[1].order_id)

\* C8 as stated: a /webhook request whose action is not exactly BUY or SELL
\* gets 400 "Invalid action", with no login and no order.
C8_InvalidActionRejected ==
    \A r \in returned :
        (r.op = "webhook" /\ r.req.action \notin {Some("BUY"), Some("SELL")})
        => /\ r.http = Some(Response(400, "error", <<"Invalid action">>, None))
           /\ r.gen = 0
           /\ r.place = 0

\* C8 amended: a /webhook request whose action is not exactly BUY or SELL
\* never reaches place_order and leaves the trader as it was; the response
\* is 400 "Invalid action" when the body is a non-empty JSON object, 400 "No
\* data received" when there is no body or the body is {}, and 500 when the
\* body is not an object.  Every order /webhook submits has the request's
\* action as its transaction type.
C8_InvalidActionNeverDispatched ==
    [][\A r \in returned' :
         r.op = "webhook"
         => /\ r.req.action \notin {Some("BUY"), Some("SELL")}
              => /\ r.tokenSeen = "unchecked"
                 /\ r.gen = 0 /\ r.loggedIn = "none"
                 /\ ~r.resolved /\ r.place = 0 /\ r.result = None
                 /\ r.http =
                      Some(CASE Falsy(r.req) ->
                                  Response(400, "error", <<"No data received">>, None)
                             [] r.req.kind = "array" ->
                                  Response(500, "error", <<"AttributeError">>, None)
                             [] OTHER ->
                                  Response(400, "error", <<"Invalid action">>, None))
                 /\ UNCHANGED <<smart_api, session, clients>>
            /\ r.payload # None
              => r.payload[1].transactiontype = r.req.action[1]]_vars

\* C8 witness: the request {"action": "HOLD"} answered 400 "Invalid action".
C8_Witness ==
    \E r \in returned :
        /\ r.op = "webhook"
        /\ r.req.action = Some("HOLD")
        /\ r.http = Some(Response(400, "error", <<"Invalid action">>, None))

\* C9: an exception raised by the brokerage client never leaves login() or
\* place_order: login() returns false, and place_order returns a failure
\* whose message is "Login failed" or names the exception.
C9_ExceptionsBecomeValues ==
    \A r \in returned :
        r.raised # None
        => /\ r.escaped = "none"
           /\ r.place = 0 => r.loggedIn = "false"
           /\ r.op \in {"webhook", "test"}
                => /\ r.result # None
                   /\ r.result[1].status = FALSE
                   /\ r.result[1].message =
                        IF r.place = 0 THEN <<"Login failed">>
                        ELSE <<"Error: ", r.raised[1]>>

\* C9 witness: placeOrder raised, and place_order returned the failure that
\* names the exception.
C9_Witness ==
    \E r \in returned :
        /\ r.place = 1
        /\ r.raised = Some("ConnectionError")
        /\ r.escaped = "none"
        /\ r.result = Some(Outcome(FALSE, <<"Error: ", "ConnectionError">>, None))

\* C10: while no login() is running, a stored auth_token comes from a
\* session created on the client smart_api holds.
C10_ClientOwnsSession ==
    (~LoginRunning /\ auth_token # None)
    => smart_api = Some(auth_token[1].client)

====
